---- MODULE Spec2Model ----
(***************************************************************************)
(* The incremental SSE decoder of crates/cloud-sdk/src/event_source.rs     *)
(* (SseDecoder::decode) driven by a chunked byte stream, as FramedRead     *)
(* drives it in ApplicationsClient::stream_progress.                       *)
(*                                                                         *)
(* A byte is a one-character string.  A byte held in the buffer carries    *)
(* the offset it had in the stream ([c |-> byte, off |-> offset]); the     *)
(* code never reads the offset, it only lets properties tell where a       *)
(* buffered byte came from.                                                *)
(***************************************************************************)
EXTENDS Integers, Sequences, FiniteSets, TLC

(* ------------------------------------------------------------------ *)
(* Bounds of the model                                                  *)
(* ------------------------------------------------------------------ *)

\* a stream holds at most MaxLines newline-terminated lines
MaxLines == 2

\* the count of decode calls since the last feed saturates here
MaxDec == 3

(* ------------------------------------------------------------------ *)
(* Bytes                                                                *)
(* ------------------------------------------------------------------ *)

NL == "\n"

\* b"data: " (event_source.rs:52, :76)
DataPrefix == <<"d", "a", "t", "a", ":", " ">>

\* the 6 of &line[6..] and &src[6..]
PrefixLen == 6

Digits == {"1", "2"}

\* serde_json's whitespace, as far as the model's bytes go
IsWs(c) == c \in {" ", NL}

\* bytes a JSON string may not hold raw
IsControl(c) == c = NL

StartsWith(s, p) == Len(s) >= Len(p) /\ SubSeq(s, 1, Len(p)) = p

\* s without its first n elements
Drop(s, n) == SubSeq(s, n + 1, Len(s))

\* s reduced to its first n elements
Take(s, n) == SubSeq(s, 1, n)

(* ------------------------------------------------------------------ *)
(* serde_json::from_slice for the decoder's event type.                  *)
(* A result is [st, i, v]: st is "ok", "eof" (an error whose              *)
(* is_eof() is true) or "err" (any other error); i is the index of the   *)
(* next unread byte; v is the value, written as its significant bytes.   *)
(* ------------------------------------------------------------------ *)

Ok(i, v) == [st |-> "ok", i |-> i, v |-> v]
Eof(i) == [st |-> "eof", i |-> i, v |-> <<>>]
Err(i) == [st |-> "err", i |-> i, v |-> <<>>]

RECURSIVE parse_whitespace(_, _)
parse_whitespace(s, i) ==
    IF i <= Len(s) /\ IsWs(s[i]) THEN parse_whitespace(s, i + 1) ELSE i

\* the rest of true / false / null after its first byte
RECURSIVE parse_ident(_, _, _, _)
parse_ident(s, i, rest, v) ==
    IF rest = <<>> THEN Ok(i, v)
    ELSE IF i > Len(s) THEN Eof(i)
    ELSE IF s[i] # Head(rest) THEN Err(i)
    ELSE parse_ident(s, i + 1, Tail(rest), v)

\* the digits after the first one
RECURSIVE parse_integer(_, _, _)
parse_integer(s, i, acc) ==
    IF i <= Len(s) /\ s[i] \in Digits
    THEN parse_integer(s, i + 1, Append(acc, s[i]))
    ELSE Ok(i, acc)

\* the bytes of a string after its opening quote
RECURSIVE parse_str(_, _, _)
parse_str(s, i, acc) ==
    IF i > Len(s) THEN Eof(i)
    ELSE IF s[i] = "\"" THEN Ok(i + 1, Append(acc, "\""))
    ELSE IF IsControl(s[i]) THEN Err(i)
    ELSE parse_str(s, i + 1, Append(acc, s[i]))

RECURSIVE parse_value(_, _)
RECURSIVE parse_seq(_, _, _, _)
RECURSIVE parse_map(_, _, _, _)

parse_value(s, i0) ==
    LET i == parse_whitespace(s, i0) IN
    IF i > Len(s) THEN Eof(i)
    ELSE IF s[i] = "[" THEN parse_seq(s, i + 1, TRUE, <<"[">>)
    ELSE IF s[i] = "{" THEN parse_map(s, i + 1, TRUE, <<"{">>)
    ELSE IF s[i] = "\"" THEN parse_str(s, i + 1, <<"\"">>)
    ELSE IF s[i] \in Digits THEN parse_integer(s, i + 1, <<s[i]>>)
    ELSE IF s[i] = "t" THEN parse_ident(s, i + 1, <<"r", "u", "e">>, <<"t">>)
    ELSE IF s[i] = "f" THEN parse_ident(s, i + 1, <<"a", "l", "s", "e">>, <<"f">>)
    ELSE IF s[i] = "n" THEN parse_ident(s, i + 1, <<"u", "l", "l">>, <<"n">>)
    ELSE Err(i)

\* the elements of an array after "[", up to and including "]"
parse_seq(s, i0, first, acc) ==
    LET i == parse_whitespace(s, i0) IN
    IF i > Len(s) THEN Eof(i)
    ELSE IF s[i] = "]" THEN Ok(i + 1, Append(acc, "]"))
    ELSE IF first THEN
        LET r == parse_value(s, i) IN
        IF r.st = "ok" THEN parse_seq(s, r.i, FALSE, acc \o r.v) ELSE r
    ELSE IF s[i] = "," THEN
        LET k == parse_whitespace(s, i + 1) IN
        IF k > Len(s) THEN Eof(k)
        ELSE IF s[k] = "]" THEN Err(k)
        ELSE LET r == parse_value(s, k) IN
             IF r.st = "ok"
             THEN parse_seq(s, r.i, FALSE, Append(acc, ",") \o r.v)
             ELSE r
    ELSE Err(i)

\* one "key": value member, its key starting at k
parse_member(s, k) ==
    IF s[k] # "\"" THEN Err(k)
    ELSE LET key == parse_str(s, k + 1, <<"\"">>) IN
         IF key.st # "ok" THEN key
         ELSE LET c == parse_whitespace(s, key.i) IN
              IF c > Len(s) THEN Eof(c)
              ELSE IF s[c] # ":" THEN Err(c)
              ELSE LET r == parse_value(s, c + 1) IN
                   IF r.st = "ok"
                   THEN Ok(r.i, Append(key.v, ":") \o r.v)
                   ELSE r

\* the members of an object after "{", up to and including "}"
parse_map(s, i0, first, acc) ==
    LET i == parse_whitespace(s, i0) IN
    IF i > Len(s) THEN Eof(i)
    ELSE IF s[i] = "}" THEN Ok(i + 1, Append(acc, "}"))
    ELSE IF first THEN
        LET m == parse_member(s, i) IN
        IF m.st = "ok" THEN parse_map(s, m.i, FALSE, acc \o m.v) ELSE m
    ELSE IF s[i] = "," THEN
        LET k == parse_whitespace(s, i + 1) IN
        IF k > Len(s) THEN Eof(k)
        ELSE LET m == parse_member(s, k) IN
             IF m.st = "ok"
             THEN parse_map(s, m.i, FALSE, Append(acc, ",") \o m.v)
             ELSE m
    ELSE Err(i)

\* what the event type's visitor makes of a parsed value: the event types
\* the decoder is built for (RequestStateChangeEvent, LogEntry) deserialize
\* from a JSON object; any other value is an invalid-type error, which is
\* no end-of-input error
visit(r) == IF Head(r.v) = "{" THEN r ELSE Err(r.i)

\* Deserializer::end: after the value nothing but whitespace may follow;
\* e is the index of the first byte that is no whitespace
end(s, r, e) == IF e <= Len(s) THEN Err(e) ELSE r

\* the parsed value r handed to the visitor, then the check of the rest
deserialize(s, r) ==
    IF r.st # "ok" THEN r
    ELSE IF visit(r).st # "ok" THEN visit(r)
    ELSE end(s, r, parse_whitespace(s, r.i))

\* serde_json::from_slice::<T>: one value of the event type, then nothing
\* but whitespace
from_slice(s) == deserialize(s, parse_value(s, 1))

(* ------------------------------------------------------------------ *)
(* The buffer (BytesMut) and SseDecoder::decode                         *)
(* ------------------------------------------------------------------ *)

\* the bytes of a buffer, without their offsets
Bytes(b) == [i \in 1..Len(b) |-> b[i].c]

\* src.iter().position(|b| *b == b'\n'): the index of the first newline,
\* counted from 1; 0 stands for None
RECURSIVE position(_, _)
position(src, i) ==
    IF i > Len(src) THEN 0
    ELSE IF src[i].c = NL THEN i
    ELSE position(src, i + 1)

nl_index(src) == position(src, 1)

\* what decode returns and the buffer it leaves
Produced(src, json) == [out |-> "Produced", src |-> src, item |-> json]
NeedMoreData(src) == [out |-> "NeedMoreData", src |-> src, item |-> <<>>]
Error(src) == [out |-> "Error", src |-> src, item |-> <<>>]

\* src.split_off(pos + 1): the bytes after the first newline
remainder(src, nl) == Drop(src, nl)

\* &src[..src.len() - 1] after the split: the first line, newline excluded
line(src, nl) == Take(Take(src, nl), nl - 1)

\* faulty variant of commit_line: the event is returned but the line stays
commit_line_no_advance(src, nl, json) == Produced(src, json)

\* faulty variant of commit_line: src.clear() as in the branch without a
\* newline, which loses the bytes after the line
commit_line_clears(src, nl, json) == Produced(<<>>, json)

\* faulty variant of commit_line: advance(pos) stops one byte short and
\* leaves the newline at the head of the buffer
commit_line_keeps_newline(src, nl, json) ==
    Produced(Drop(Take(src, nl) \o remainder(src, nl), nl - 1), json)

\* Ok(json) with a newline: unsplit, then advance past the line
commit_line(src, nl, json) ==
    Produced(Drop(Take(src, nl) \o remainder(src, nl), nl), json)

\* faulty variant of put_back: the end-of-input error is handed to the caller
put_back_as_error(src, nl) == Error(src)

\* faulty variant of put_back: unsplit without the truncate, the newline
\* stays
put_back_restores(src, nl) == NeedMoreData(Take(src, nl) \o remainder(src, nl))

\* Err(e) if e.is_eof() with a newline: truncate the newline away, unsplit
put_back(src, nl) ==
    NeedMoreData(Take(Take(src, nl), nl - 1) \o remainder(src, nl))

\* Err(e) with a newline: nothing is put back, src stays the split-off head
fail_line(src, nl) == Error(Take(src, nl))

\* faulty variant of skip_line: a line without the prefix is reported
skip_line_as_error(src, nl) == Error(Drop(src, nl))

\* faulty variant of skip_line: src.clear() instead of unsplit and advance
skip_line_clears(src, nl) == NeedMoreData(<<>>)

\* a line that is no data line: unsplit, then advance past the line
skip_line(src, nl) ==
    NeedMoreData(Drop(Take(src, nl) \o remainder(src, nl), nl))

\* the match on the parse result r of a newline-terminated data line
on_line(src, nl, r) ==
    CASE r.st = "ok" -> commit_line(src, nl, r.v)
      [] r.st = "eof" -> put_back(src, nl)
      [] OTHER -> fail_line(src, nl)

\* the newline branch
decode_line(src, nl) ==
    IF StartsWith(Bytes(line(src, nl)), DataPrefix)
    THEN on_line(src, nl, from_slice(Drop(Bytes(line(src, nl)), PrefixLen)))
    ELSE skip_line(src, nl)

\* faulty variant of on_tail: without the is_eof() arm every parse failure
\* is an Error
on_tail_eof_is_error(src, r) ==
    CASE r.st = "ok" -> Produced(<<>>, r.v)
      [] OTHER -> Error(src)

\* faulty variant of on_tail: the buffer is cleared on a failure that is no
\* truncation
on_tail_error_clears(src, r) ==
    CASE r.st = "ok" -> Produced(<<>>, r.v)
      [] r.st = "eof" -> NeedMoreData(src)
      [] OTHER -> Error(<<>>)

\* faulty variant of on_tail: the buffer is cleared on an end-of-input error
on_tail_eof_clears(src, r) ==
    CASE r.st = "ok" -> Produced(<<>>, r.v)
      [] r.st = "eof" -> NeedMoreData(<<>>)
      [] OTHER -> Error(src)

\* faulty variant of on_tail: Ok(json) without src.clear()
on_tail_keeps(src, r) ==
    CASE r.st = "ok" -> Produced(src, r.v)
      [] r.st = "eof" -> NeedMoreData(src)
      [] OTHER -> Error(src)

\* the match on the parse result r of a buffer without a newline
on_tail(src, r) ==
    CASE r.st = "ok" -> Produced(<<>>, r.v)
      [] r.st = "eof" -> NeedMoreData(src)
      [] OTHER -> Error(src)

\* faulty variant of decode_tail: a buffer that does not start with the
\* prefix is discarded as if it were a whole line
decode_tail_discards(src) ==
    IF StartsWith(Bytes(src), DataPrefix)
    THEN on_tail(src, from_slice(Drop(Bytes(src), PrefixLen)))
    ELSE NeedMoreData(<<>>)

\* the branch without a newline
decode_tail(src) ==
    IF StartsWith(Bytes(src), DataPrefix)
    THEN on_tail(src, from_slice(Drop(Bytes(src), PrefixLen)))
    ELSE NeedMoreData(src)

\* faulty variant of decode: without the is_empty() test an empty buffer is
\* handed to the parser like an empty payload and its failure is reported
decode_empty_is_error(src) ==
    IF src # <<>>
    THEN IF nl_index(src) # 0
         THEN decode_line(src, nl_index(src))
         ELSE decode_tail(src)
    ELSE Error(src)

\* SseDecoder::decode
decode(src) ==
    IF src # <<>>
    THEN IF nl_index(src) # 0
         THEN decode_line(src, nl_index(src))
         ELSE decode_tail(src)
    ELSE NeedMoreData(src)

(* ------------------------------------------------------------------ *)
(* The index arithmetic of decode: an index out of range or a length     *)
(* below zero makes the call panic                                        *)
(* ------------------------------------------------------------------ *)

Panic(src) == [out |-> "Panic", src |-> src, item |-> <<>>]

\* split_off(at), &s[..n], &s[n..] and advance(n) need the index within s
index_ok(s, n) == 0 <= n /\ n <= Len(s)

\* faulty variant of line_in_bounds: the payload slice line[6..] is taken
\* before the prefix test, on lines of any length
line_in_bounds_unguarded(src, nl) ==
    /\ index_ok(src, nl)
    /\ index_ok(Take(src, nl), Len(Take(src, nl)) - 1)
    /\ index_ok(line(src, nl), PrefixLen)
    /\ index_ok(Take(src, nl) \o remainder(src, nl), nl)

\* the newline branch: split_off(pos + 1), src[..src.len() - 1], line[6..],
\* then advance(pos + 1) on the re-joined buffer or truncate(src.len() - 1)
line_in_bounds(src, nl) ==
    /\ index_ok(src, nl)
    /\ index_ok(Take(src, nl), Len(Take(src, nl)) - 1)
    /\ IF StartsWith(Bytes(line(src, nl)), DataPrefix)
       THEN /\ index_ok(line(src, nl), PrefixLen)
            /\ index_ok(Take(src, nl) \o remainder(src, nl), nl)
       ELSE index_ok(Take(src, nl) \o remainder(src, nl), nl)

\* the branch without a newline: src[6..]
tail_in_bounds(src) ==
    StartsWith(Bytes(src), DataPrefix) => index_ok(src, PrefixLen)

decode_in_bounds(src) ==
    IF src # <<>>
    THEN IF nl_index(src) # 0
         THEN line_in_bounds(src, nl_index(src))
         ELSE tail_in_bounds(src)
    ELSE TRUE

\* decode as it runs: its result, or a panic
decode_checked(src) ==
    IF decode_in_bounds(src) THEN decode(src) ELSE Panic(src)

(* ------------------------------------------------------------------ *)
(* The streams the decoder is run on                                    *)
(* ------------------------------------------------------------------ *)

Data(payload) == DataPrefix \o payload

\* well-formed data lines: "data: <json>"
GoodLines ==
    { Data(<<"{", "}">>),
      Data(<<"{", "\"", "a", "\"", ":", "1", "}">>) }

\* complete data lines whose payload is no JSON, for a reason other than
\* its end coming too early
BadLines == { Data(<<"x">>) }

\* data lines whose payload ends too early
CutLines == { Data(<<>>), Data(<<"{">>) }

\* lines that are no data lines: a keep-alive line, a line of other text
OtherLines == { <<>>, <<"}">> }

Catalog == GoodLines \cup BadLines \cup CutLines \cup OtherLines

RECURSIVE Concat(_)
Concat(ls) == IF ls = <<>> THEN <<>> ELSE Append(Head(ls), NL) \o Concat(Tail(ls))

LineSeqs == UNION { [1..n -> Catalog] : n \in 1..MaxLines }

Streams == { Concat(ls) : ls \in LineSeqs }

(* ------------------------------------------------------------------ *)
(* State                                                                *)
(* ------------------------------------------------------------------ *)

VARIABLES
    stream,       \* the bytes the server sends, fixed for the run
    pos,          \* how many of them have been fed to the buffer
    buf,          \* the buffer decode works on (src)
    out,          \* what the last decode call returned ("Panic": it panicked);
                  \* "none" after a feed
    events,       \* the events produced so far, each with the offset of its frame
    pre,          \* the buffer as it was before the last step
    op,           \* the last step: "init", "feed" or "decode"
    ndec,         \* decode calls since the last feed, saturating at MaxDec
    oneChunk,     \* the whole stream arrived in a single feed
    disciplined,  \* so far, no decode call followed a NeedMoreData without a feed
    errored,      \* some decode call returned Error
    response,     \* Client::execute: the response the server sends, if any
    result,       \* Client::execute: what the call returned
    self_middlewares, \* ClientBuilder: the field middlewares
    passed,       \* every middleware handed to the builder so far, in call order
    ncalls,       \* builder calls so far
    built,        \* "no", or how build ended: "ok" or "err"
    chain,        \* the middleware stack of the built client
    source,       \* the EventSource: "connecting", "open" or "closed"
    arrived,      \* what the EventSource has yielded so far
    emitted,      \* what the stream of build_event_source_request has yielded
    ended,        \* that stream has returned None
    attempts,     \* poll_build_status: the local attempts
    replies,      \* poll_build_status: the answers to the status requests sent
    polled,       \* poll_build_status: what it returned
    requests,     \* get_progress_updates: the nextToken of each request sent
    pages,        \* get_progress_updates: the pages received
    mode,         \* get_progress_updates: request.mode of the next request
    all_updates,  \* get_progress_updates: the local all_updates
    fetched       \* get_progress_updates: what it returned

decoderVars ==
    <<stream, pos, buf, out, events, pre, op, ndec, oneChunk, disciplined, errored>>

executeVars == <<response, result>>

builderVars == <<self_middlewares, passed, ncalls, built, chain>>

sseVars == <<source, arrived, emitted, ended>>

pollVars == <<attempts, replies, polled>>

\* the state of the calls modelled after the event source
fetchVars == <<requests, pages, mode, all_updates, fetched>>

restVars == <<pollVars, fetchVars>>

clientVars == <<executeVars, builderVars, sseVars, restVars>>

vars == <<decoderVars, clientVars>>

\* no request is being executed
ExecuteIdle == response = <<>> /\ result = [tag |-> "none"]

\* ClientBuilder::new
BuilderNew ==
    /\ self_middlewares = <<>>
    /\ passed = <<>>
    /\ ncalls = 0
    /\ built = "no"
    /\ chain = <<>>

\* EventSource::new: the request is about to be sent, nothing has arrived
EventSourceNew ==
    /\ source = "connecting"
    /\ arrived = <<>>
    /\ emitted = <<>>
    /\ ended = FALSE

\* poll_build_status is entered: let mut attempts = 0
PollStart ==
    /\ attempts = 0
    /\ replies = <<>>
    /\ polled = [tag |-> "none"]

\* get_progress_updates is entered with request.mode = FetchAll
FetchStart ==
    /\ requests = <<>>
    /\ pages = <<>>
    /\ mode = [kind |-> "FetchAll", token |-> <<>>]
    /\ all_updates = <<>>
    /\ fetched = [tag |-> "none"]

ClientIdle == ExecuteIdle /\ BuilderNew /\ EventSourceNew /\ PollStart /\ FetchStart

\* the driver has nothing left to ask of decode before the next chunk
Drained == op = "init" \/ (op = "decode" /\ out = "NeedMoreData")

Init ==
    /\ stream \in Streams
    /\ pos = 0
    /\ buf = <<>>
    /\ out = "none"
    /\ events = <<>>
    /\ pre = <<>>
    /\ op = "init"
    /\ ndec = 0
    /\ oneChunk = FALSE
    /\ disciplined = TRUE
    /\ errored = FALSE
    /\ ClientIdle

\* the next n bytes of the stream, tagged with their offsets
Chunk(n) == [i \in 1..n |-> [c |-> stream[pos + i], off |-> pos + i]]

\* a chunk of the response body is appended to the buffer; the framed
\* reader asks for one only after decode returned Ok(None)
Feed(n) ==
    /\ Drained
    /\ out # "Panic"
    /\ pos + n <= Len(stream)
    /\ buf' = buf \o Chunk(n)
    /\ pos' = pos + n
    /\ out' = "none"
    /\ pre' = buf
    /\ op' = "feed"
    /\ ndec' = 0
    /\ oneChunk' = (pos = 0 /\ n = Len(stream))
    /\ UNCHANGED <<stream, events, disciplined, errored>>
    /\ UNCHANGED clientVars

\* a decode call that returns r.out and leaves the buffer r.src
Returns(r) ==
    /\ out # "Panic"
    /\ buf' = r.src
    /\ out' = r.out
    /\ events' = IF r.out = "Produced"
                 THEN Append(events, [v |-> r.item, at |-> buf[1].off])
                 ELSE events
    /\ pre' = buf
    /\ op' = "decode"
    /\ ndec' = IF ndec < MaxDec THEN ndec + 1 ELSE ndec
    /\ disciplined' = (disciplined /\ ~Drained)
    /\ errored' = (errored \/ r.out = "Error")
    /\ UNCHANGED <<stream, pos, oneChunk>>
    /\ UNCHANGED clientVars

\* one call of SseDecoder::decode on the buffer
DecodeCall == Returns(decode_checked(buf))

\* a chunk of any size arrives
FeedChunk == \E n \in 1..Len(stream) : Feed(n)

Next ==
    \/ FeedChunk
    \/ DecodeCall

Spec == Init /\ [][Next]_vars

\* no progress stream is open: the decoder state of a client that only
\* executes plain requests
DecoderIdle ==
    /\ stream = <<>>
    /\ pos = 0
    /\ buf = <<>>
    /\ out = "none"
    /\ events = <<>>
    /\ pre = <<>>
    /\ op = "init"
    /\ ndec = 0
    /\ oneChunk = FALSE
    /\ disciplined = TRUE
    /\ errored = FALSE

(* ------------------------------------------------------------------ *)
(* Client::execute and Client::handle_response                          *)
(* ------------------------------------------------------------------ *)

UNAUTHORIZED == 401
FORBIDDEN == 403

\* the values of reqwest::StatusCode
StatusCodes == 100..999

is_server_error(status) == 500 <= status /\ status < 600

is_success(status) == 200 <= status /\ status < 300

\* the bodies a response arrives with: empty, some text, or one whose read
\* fails (response.text() returns Err)
Bodies ==
    { [readable |-> TRUE, text |-> ""],
      [readable |-> TRUE, text |-> "denied"],
      [readable |-> FALSE, text |-> ""] }

Responses == [status : StatusCodes, body : Bodies]

\* what execute returns
OkResponse(resp) == [tag |-> "Ok", response |-> resp]
Authentication(message) == [tag |-> "Authentication", message |-> message]
Authorization(message) == [tag |-> "Authorization", message |-> message]
ServerError(status, message) ==
    [tag |-> "ServerError", status |-> status, message |-> message]
Middleware == [tag |-> "Middleware"]

\* response.text().await.unwrap_or_else(|_| default)
text_or(resp, default) ==
    IF resp.body.readable THEN resp.body.text ELSE default

\* faulty variant of body_message_or_default: an empty body is passed on as
\* the message
body_message_unchecked(resp, default) == text_or(resp, default)

body_message_or_default(resp, default) ==
    IF text_or(resp, default) = "" THEN default ELSE text_or(resp, default)

\* faulty variant of handle_response: without the !is_success() arm the
\* statuses outside 2xx and 5xx fall through to Ok
handle_response_server_errors_only(resp) ==
    IF resp.status = UNAUTHORIZED
    THEN Authentication(body_message_or_default(resp, "Unauthorized"))
    ELSE IF resp.status = FORBIDDEN
    THEN Authorization(body_message_or_default(resp, "Forbidden"))
    ELSE IF is_server_error(resp.status)
    THEN ServerError(resp.status, body_message_or_default(resp, "Server error"))
    ELSE OkResponse(resp)

\* the match on the status, arm by arm
handle_response(resp) ==
    IF resp.status = UNAUTHORIZED
    THEN Authentication(body_message_or_default(resp, "Unauthorized"))
    ELSE IF resp.status = FORBIDDEN
    THEN Authorization(body_message_or_default(resp, "Forbidden"))
    ELSE IF is_server_error(resp.status)
    THEN ServerError(resp.status, body_message_or_default(resp, "Server error"))
    ELSE IF ~is_success(resp.status)
    THEN ServerError(resp.status, body_message_or_default(resp, "Request failed"))
    ELSE OkResponse(resp)

\* Client::execute, the request answered with the response: the status is
\* matched
ExecuteAnswered ==
    /\ result.tag = "none"
    /\ response # <<>>
    /\ result' = handle_response(response[1])
    /\ UNCHANGED <<response, decoderVars, builderVars, sseVars, restVars>>

\* Client::execute, self.client.execute(request) failed: the ? returns the
\* error and no response is looked at
ExecuteFails ==
    /\ result.tag = "none"
    /\ response = <<>>
    /\ result' = Middleware
    /\ UNCHANGED <<response, decoderVars, builderVars, sseVars, restVars>>

\* one request, answered with any response or with none
InitExecute ==
    /\ DecoderIdle
    /\ response \in { <<resp>> : resp \in Responses } \cup { <<>> }
    /\ result = [tag |-> "none"]
    /\ BuilderNew
    /\ EventSourceNew
    /\ PollStart
    /\ FetchStart

NextExecute ==
    \/ ExecuteAnswered
    \/ ExecuteFails

SpecExecute == InitExecute /\ [][NextExecute]_vars

(* ------------------------------------------------------------------ *)
(* ClientBuilder                                                        *)
(* ------------------------------------------------------------------ *)

MaxCalls == 3
MaxList == 2

\* the middlewares a caller has at hand
Mids == {"m1", "m2"}

\* the vectors a caller passes to middlewares()
MidLists == UNION { [1..n -> Mids] : n \in 0..MaxList }

\* ClientBuilder::middleware: self.middlewares.push(Arc::new(middleware))
middleware(m) ==
    /\ built = "no"
    /\ ncalls < MaxCalls
    /\ self_middlewares' = Append(self_middlewares, m)
    /\ passed' = Append(passed, m)
    /\ ncalls' = ncalls + 1
    /\ UNCHANGED <<built, chain, executeVars, decoderVars, sseVars, restVars>>

\* ClientBuilder::middlewares: self.middlewares = middlewares
middlewares(list) ==
    /\ built = "no"
    /\ ncalls < MaxCalls
    /\ self_middlewares' = list
    /\ passed' = passed \o list
    /\ ncalls' = ncalls + 1
    /\ UNCHANGED <<built, chain, executeVars, decoderVars, sseVars, restVars>>

\* ClientBuilder::build: with_arc for each element of self.middlewares, in
\* order
build ==
    /\ built = "no"
    /\ built' = "ok"
    /\ chain' = self_middlewares
    /\ UNCHANGED <<self_middlewares, passed, ncalls, executeVars, decoderVars, sseVars,
                   restVars>>

\* ClientBuilder::build returns Err: a header value or the base client could
\* not be made
build_fails ==
    /\ built = "no"
    /\ built' = "err"
    /\ UNCHANGED <<self_middlewares, passed, ncalls, chain, executeVars, decoderVars,
                   sseVars, restVars>>

AddOne == \E m \in Mids : middleware(m)

AddMany == \E list \in MidLists : middlewares(list)

InitBuilder == DecoderIdle /\ ClientIdle

NextBuilder ==
    \/ AddOne
    \/ AddMany
    \/ build
    \/ build_fails

SpecBuilder == InitBuilder /\ [][NextBuilder]_vars

(* ------------------------------------------------------------------ *)
(* Client::build_event_source_request                                   *)
(* ------------------------------------------------------------------ *)

MaxItems == 4

\* the items of the EventSource stream: Ok(Event::Open), Ok(Event::Message),
\* Err(Error::StreamEnded) and any other Err (a transport failure)
Open == [kind |-> "Open"]
Message(data) == [kind |-> "Message", data |-> data]
StreamEnded == [kind |-> "StreamEnded"]
Transport == [kind |-> "Transport"]

\* msg.data of the messages a server sends: an event, text that is no JSON,
\* a value that ends too early
MsgData == { <<"{", "}">>, <<"x">>, <<"{">> }

\* the items of the returned stream
OkEvent(v) == [tag |-> "Ok", v |-> v]
Json == [tag |-> "Json"]
EventSourceError == [tag |-> "EventSourceError"]

\* faulty variant of take_while: without the StreamEnded arm the stream is
\* never ended by an item
take_while_all(event) == TRUE

\* the closure of take_while
take_while(event) ==
    CASE event.kind \in {"Message", "Open"} -> TRUE
      [] event.kind = "StreamEnded" -> FALSE
      [] OTHER -> TRUE

\* serde_json::from_str::<T>(&msg.data)
from_str(data) == from_slice(data)

\* Ok(evt) or Err(SdkError::Json(error))
parsed_message(r) == IF r.st = "ok" THEN OkEvent(r.v) ELSE Json

\* the closure of filter_map: the items it lets out, none for None
filter_map(event) ==
    CASE event.kind = "Open" -> <<>>
      [] event.kind = "Message" -> <<parsed_message(from_str(event.data))>>
      [] event.kind = "StreamEnded" -> <<>>
      [] OTHER -> <<EventSourceError>>

\* the EventSource yields event and goes on in state next; the item passes
\* take_while, or ends the returned stream, and then filter_map
Yields(event, next) ==
    /\ ~ended
    /\ Len(arrived) < MaxItems
    /\ arrived' = Append(arrived, event)
    /\ source' = next
    /\ ended' = ~take_while(event)
    /\ emitted' = IF take_while(event) THEN emitted \o filter_map(event) ELSE emitted
    /\ UNCHANGED <<decoderVars, executeVars, builderVars, restVars>>

\* the connection is made
Connected == source = "connecting" /\ Yields(Open, "open")

\* a message arrives on the open connection
MessageArrives == source = "open" /\ \E data \in MsgData : Yields(Message(data), "open")

\* the server closes the response body; the EventSource reports it and,
\* its retry policy permitting, connects again
BodyEnds == source = "open" /\ \E next \in {"connecting", "closed"} : Yields(StreamEnded, next)

\* the connection fails, while connecting or while open; the EventSource
\* reports it and, its retry policy permitting, connects again
TransportFails ==
    /\ source \in {"connecting", "open"}
    /\ \E next \in {"connecting", "closed"} : Yields(Transport, next)

\* the closed EventSource returns None, and so does the returned stream
SourceEnds ==
    /\ source = "closed"
    /\ ~ended
    /\ ended' = TRUE
    /\ UNCHANGED <<source, arrived, emitted, decoderVars, executeVars, builderVars,
                   restVars>>

InitEventSource == DecoderIdle /\ ClientIdle

NextEventSource ==
    \/ Connected
    \/ MessageArrives
    \/ BodyEnds
    \/ TransportFails
    \/ SourceEnds

SpecEventSource == InitEventSource /\ [][NextEventSource]_vars

(* ------------------------------------------------------------------ *)
(* ImagesClient::poll_build_status                                      *)
(* ------------------------------------------------------------------ *)

\* if attempts > 10
MAX_ATTEMPTS == 10

\* build_info.status as the build service reports it
BuildStatuses == {"completed", "succeeded", "failed", "pending", "building"}

\* the answers to one status request: the send fails, or a response arrives
\* with an HTTP status and a body that is a BuildInfo with some status or
\* does not parse as one
SendFailed == [kind |-> "send_failed"]
StatusReplies ==
    [kind : {"response"}, http : {200, 404, 503},
     body : BuildStatuses \cup {"unparsable"}]
Replies == StatusReplies \cup {SendFailed}

\* what poll_build_status returns
PollOk(status) == [tag |-> "Ok", status |-> status]
PollErr(why) == [tag |-> "Err", why |-> why]
PollTimedOut(n) == [tag |-> "Err", why |-> "timed out", attempts |-> n]
PollContinue == [tag |-> "none"]

\* faulty variant of on_build_status: "succeeded" is not among the statuses
\* that end the polling
on_build_status_completed_only(status) ==
    CASE status = "completed" -> PollOk("Succeeded")
      [] status = "failed" -> PollOk("Failed")
      [] OTHER -> PollContinue

\* match build_info.status.as_str()
on_build_status(status) ==
    CASE status \in {"completed", "succeeded"} -> PollOk("Succeeded")
      [] status = "failed" -> PollOk("Failed")
      [] OTHER -> PollContinue

\* the rest of a loop iteration, from the answer to the status request
on_reply(reply) ==
    IF reply.kind = "send_failed" THEN PollErr("send")
    ELSE IF ~is_success(reply.http) THEN PollErr("status")
    ELSE IF reply.body = "unparsable" THEN PollErr("parse")
    ELSE on_build_status(reply.body)

\* one loop iteration that sends a status request and gets reply
PollOnce(reply) ==
    /\ polled.tag = "none"
    /\ attempts + 1 <= MAX_ATTEMPTS
    /\ attempts' = attempts + 1
    /\ replies' = Append(replies, reply)
    /\ polled' = on_reply(reply)
    /\ UNCHANGED <<decoderVars, executeVars, builderVars, sseVars, fetchVars>>

\* the loop iteration that finds attempts > 10 and bails
PollGivesUp ==
    /\ polled.tag = "none"
    /\ attempts + 1 > MAX_ATTEMPTS
    /\ attempts' = attempts + 1
    /\ polled' = PollTimedOut(attempts + 1)
    /\ UNCHANGED <<replies, decoderVars, executeVars, builderVars, sseVars, fetchVars>>

Polls == \E reply \in Replies : PollOnce(reply)

InitPoll == DecoderIdle /\ ClientIdle

NextPoll ==
    \/ Polls
    \/ PollGivesUp

\* every awaited sleep and request completes, so the loop keeps running
SpecPoll == InitPoll /\ [][NextPoll]_vars /\ WF_vars(NextPoll)

(* ------------------------------------------------------------------ *)
(* ApplicationsClient::get_progress_updates, mode FetchAll              *)
(* ------------------------------------------------------------------ *)

MaxPages == 3

\* the values of next_token a page carries; <<>> stands for None
Tokens == {"t1", "t2"}
OptTokens == { <<>> } \cup { <<t>> : t \in Tokens }

\* the updates a page carries
UpdateLists == { <<>>, <<"a">>, <<"b">> }

\* models::ProgressUpdates as a response body parses to
Pages == [updates : UpdateLists, next_token : OptTokens]

Paginated(token) == [kind |-> "Paginated", token |-> token]

\* what get_progress_updates returns
Updates(updates, next_token) ==
    [tag |-> "Ok", updates |-> updates, next_token |-> next_token]
FetchErr == [tag |-> "Err"]

\* build_progress_update_request: the nextToken query of the request, <<>>
\* when there is none
build_progress_update_request(m) ==
    IF m.kind = "Paginated" /\ m.token # <<>> THEN m.token ELSE <<>>

\* faulty variant of extend: the page's updates replace the accumulated ones
extend_replaces(acc, updates) == updates

\* all_updates.extend(response.updates)
extend(acc, updates) == acc \o updates

\* the first request is sent and the page parses
FirstPage(page) ==
    /\ fetched.tag = "none"
    /\ requests = <<>>
    /\ requests' = <<build_progress_update_request(mode)>>
    /\ pages' = <<page>>
    /\ IF page.next_token = <<>>
       THEN /\ fetched' = Updates(page.updates, page.next_token)
            /\ UNCHANGED <<all_updates, mode>>
       ELSE /\ all_updates' = page.updates
            /\ mode' = Paginated(page.next_token)
            /\ UNCHANGED fetched
    /\ UNCHANGED <<decoderVars, executeVars, builderVars, sseVars, pollVars>>

\* one iteration of the loop: the request is sent and the page parses
NextPage(page) ==
    /\ fetched.tag = "none"
    /\ requests # <<>>
    /\ Len(requests) < MaxPages
    /\ requests' = Append(requests, build_progress_update_request(mode))
    /\ pages' = Append(pages, page)
    /\ all_updates' = extend(all_updates, page.updates)
    /\ IF page.next_token = <<>>
       THEN /\ fetched' = Updates(extend(all_updates, page.updates), <<>>)
            /\ UNCHANGED mode
       ELSE /\ mode' = Paginated(page.next_token)
            /\ UNCHANGED fetched
    /\ UNCHANGED <<decoderVars, executeVars, builderVars, sseVars, pollVars>>

\* a request cannot be built or executed, or its body cannot be read or
\* parsed: the ? returns the error
PageFails ==
    /\ fetched.tag = "none"
    /\ Len(requests) < MaxPages
    /\ requests' = Append(requests, build_progress_update_request(mode))
    /\ fetched' = FetchErr
    /\ UNCHANGED <<pages, mode, all_updates>>
    /\ UNCHANGED <<decoderVars, executeVars, builderVars, sseVars, pollVars>>

FetchFirst == \E page \in Pages : FirstPage(page)

FetchNext == \E page \in Pages : NextPage(page)

InitFetch == DecoderIdle /\ ClientIdle

NextFetch ==
    \/ FetchFirst
    \/ FetchNext
    \/ PageFails

SpecFetch == InitFetch /\ [][NextFetch]_vars

(* ------------------------------------------------------------------ *)
(* The stream as lines, for stating properties                          *)
(* ------------------------------------------------------------------ *)

\* the offset of the newline that ends the line starting at offset s
RECURSIVE LineEnd(_)
LineEnd(s) == IF stream[s] = NL THEN s ELSE LineEnd(s + 1)

\* the offsets at which the lines of the stream start, in order
RECURSIVE StartsFrom(_)
StartsFrom(s) ==
    IF s > Len(stream) THEN <<>> ELSE <<s>> \o StartsFrom(LineEnd(s) + 1)

Starts == StartsFrom(1)

NumLines == Len(Starts)

\* the line starting at offset s, newline excluded
LineText(s) == SubSeq(stream, s, LineEnd(s) - 1)

IsDataLine(text) == StartsWith(text, DataPrefix)

Payload(text) == Drop(text, PrefixLen)

\* a well-formed frame: "data: " and a payload that is one event
IsGood(text) == IsDataLine(text) /\ from_slice(Payload(text)).st = "ok"

\* a complete data line whose payload fails for a reason other than truncation
IsBad(text) == IsDataLine(text) /\ from_slice(Payload(text)).st = "err"

\* a data line whose payload ends too early
IsCut(text) == IsDataLine(text) /\ from_slice(Payload(text)).st = "eof"

\* the event of the well-formed frame starting at offset s
EventAt(s) == [v |-> from_slice(Payload(LineText(s))).v, at |-> s]

AllGood == \A k \in 1..NumLines : IsGood(LineText(Starts[k]))

\* the events of the well-formed frames of the stream, in stream order
RECURSIVE GoodEventsFrom(_)
GoodEventsFrom(k) ==
    IF k > NumLines THEN <<>>
    ELSE IF IsGood(LineText(Starts[k]))
         THEN <<EventAt(Starts[k])>> \o GoodEventsFrom(k + 1)
         ELSE GoodEventsFrom(k + 1)

GoodEvents == GoodEventsFrom(1)

\* the stream bytes at offsets s..e as the buffer holds them
Tagged(s, e) == [i \in 1..(e - s + 1) |-> [c |-> stream[s + i - 1], off |-> s + i - 1]]

\* the text decode looks at: the first line of the buffer, or all of it
\* when it holds no newline
FirstLine(b) == IF nl_index(b) # 0 THEN Bytes(line(b, nl_index(b))) ELSE Bytes(b)

IsSuffix(t, b) == Len(t) <= Len(b) /\ Drop(b, Len(b) - Len(t)) = t

IsPrefix(t, b) == Len(t) <= Len(b) /\ Take(b, Len(t)) = t

\* the driver of P1 has finished: everything fed, decode called after each
\* feed until NeedMoreData and not beyond
RunComplete ==
    disciplined /\ op = "decode" /\ out = "NeedMoreData" /\ pos = Len(stream)

(* ------------------------------------------------------------------ *)
(* Claims                                                               *)
(* ------------------------------------------------------------------ *)

\* C1 (P1, as the spec states it): for a stream of N well-formed frames, under
\* any chunking, once all chunks are fed and decode has been called after each
\* feed until NeedMoreData, exactly the N events were produced, in stream
\* order, and no Error was returned.
C1_OrderPreservation ==
    (AllGood /\ RunComplete) => (events = GoodEvents /\ ~errored)

\* the chunk boundary at pos falls inside the payload of the well-formed
\* frame starting at s, and b is exactly the part of the frame fed so far
SplitInside(b, s) ==
    /\ IsGood(LineText(s))
    /\ s + PrefixLen <= pos
    /\ pos < LineEnd(s) - 1
    /\ b = Tagged(s, pos)

\* the buffer b starts with the whole frame that starts at s
FrameAtHead(b, s) ==
    /\ IsGood(LineText(s))
    /\ LineEnd(s) <= pos
    /\ IsPrefix(Tagged(s, LineEnd(s)), b)

\* C2 (P3): with a frame's payload split inside the JSON value, decode on the
\* first part returns NeedMoreData and leaves every byte of it in the buffer;
\* decode on the buffer holding the whole frame produces the frame's event and
\* removes exactly the frame; a stream of one frame, however it is chunked,
\* ends with its one event produced and no Error.
C2_TruncationTolerance ==
    /\ \A k \in 1..NumLines :
         /\ (op = "decode" /\ SplitInside(pre, Starts[k]))
                => (out = "NeedMoreData" /\ buf = pre)
         /\ (op = "decode" /\ FrameAtHead(pre, Starts[k]))
                => /\ out = "Produced"
                   /\ events # <<>>
                   /\ events[Len(events)] = EventAt(Starts[k])
                   /\ buf = Drop(pre, LineEnd(Starts[k]) - Starts[k] + 1)
    /\ (NumLines = 1 /\ AllGood /\ RunComplete)
           => (events = GoodEvents /\ ~errored)

\* decode has just answered NeedMoreData on the first part of a split frame
C2_Witness ==
    \E k \in 1..NumLines :
        op = "decode" /\ SplitInside(pre, Starts[k]) /\ out = "NeedMoreData"

\* the buffer b starts with a complete data line whose payload is malformed
MalformedHead(b) ==
    /\ nl_index(b) # 0
    /\ IsBad(Bytes(line(b, nl_index(b))))

\* C3 (P4, as the spec states it): decode on a buffer that starts with a
\* complete malformed data line returns Error and leaves exactly the bytes
\* that followed the line's newline.
C3_MalformedConsumed ==
    (op = "decode" /\ MalformedHead(pre))
        => (out = "Error" /\ buf = Drop(pre, nl_index(pre)))

\* every line of the stream is a complete data line, well-formed or malformed,
\* and a malformed one comes first
BadThenFrames ==
    /\ IsBad(LineText(Starts[1]))
    /\ \A k \in 2..NumLines : IsGood(LineText(Starts[k]))

\* C4 (as the spec states it): with a malformed frame and the well-formed
\* frames after it buffered in one chunk, as many decode calls as the stream
\* has lines produce the well-formed frames, in order.
C4_StreamContinues ==
    (BadThenFrames /\ oneChunk /\ ndec >= NumLines) => events = GoodEvents

C6_Ordering ==
    /\ [](/\ \A i \in 1..Len(events) :
                StartsWith(Drop(stream, events[i].at - 1), DataPrefix)
          /\ \A i \in 1..(Len(events) - 1) : events[i].at < events[i + 1].at)
    /\ [][Len(events') <= Len(events) + 1 /\ IsPrefix(events, events')]_vars

\* two events have been produced
C6_Witness == Len(events) >= 2 /\ events[1].v # events[2].v

\* C7: with k well-formed frames fed in one chunk, the events produced so far
\* are the first frames in order, the buffer holds exactly the frames not yet
\* produced, every decode on a non-empty buffer produces and removes exactly
\* one frame, and decode on the emptied buffer returns NeedMoreData.
C7_BackToBack ==
    (AllGood /\ oneChunk) =>
        LET j == Len(events) IN
        /\ j <= NumLines
        /\ events = Take(GoodEvents, j)
        /\ buf = (IF j = NumLines THEN <<>> ELSE Tagged(Starts[j + 1], Len(stream)))
        /\ op = "decode" =>
              IF pre = <<>>
              THEN out = "NeedMoreData" /\ buf = <<>>
              ELSE /\ out = "Produced"
                   /\ pre = Tagged(Starts[j], LineEnd(Starts[j])) \o buf

\* two frames fed at once have both been produced and a further decode found
\* the buffer empty
C7_Witness ==
    /\ AllGood /\ oneChunk /\ NumLines >= 2
    /\ Len(events) = NumLines
    /\ op = "decode" /\ pre = <<>> /\ out = "NeedMoreData"

\* C8 (as the spec states it): a decode call leaves a suffix of the buffer it
\* was given; a feed leaves the old buffer followed by the fed stream bytes.
C8_HeadOnlyConsumption ==
    /\ op = "decode" => IsSuffix(buf, pre)
    /\ op = "feed" => (IsPrefix(pre, buf) /\ buf = pre \o Tagged(pos - (Len(buf) - Len(pre)) + 1, pos))

\* C9 (P5): decode on an empty buffer returns NeedMoreData and leaves the
\* buffer empty, also when it is called again and again.
C9_EmptyIdempotent ==
    (op = "decode" /\ pre = <<>>) => (out = "NeedMoreData" /\ buf = <<>>)

\* decode has been called on the empty buffer MaxDec times in a row
C9_Witness ==
    op = "decode" /\ pre = <<>> /\ buf = <<>> /\ ndec = MaxDec /\ pos = 0

\* C10: when the data line decode looks at fails to parse with an
\* end-of-input error, with or without a newline, decode returns NeedMoreData.
C10_TruncationNeverSurfaced ==
    (op = "decode" /\ pre # <<>> /\ IsCut(FirstLine(pre))) => out = "NeedMoreData"

\* decode has met a newline-terminated data line whose payload is cut off
C10_Witness ==
    /\ op = "decode"
    /\ nl_index(pre) # 0
    /\ IsCut(FirstLine(pre))
    /\ out = "NeedMoreData"

\* C11: no decode call panics: on every buffer every split_off, slice,
\* truncate and advance of decode stays within the buffer.
C11_NoPanic ==
    /\ out # "Panic"
    /\ op = "decode" => decode_in_bounds(pre)

\* decode has run on "data: " with an empty payload and the newline as the
\* last byte of the buffer
C11_Witness ==
    /\ op = "decode"
    /\ Bytes(pre) = Append(DataPrefix, NL)
    /\ out = "NeedMoreData"

\* the last decode call ran the newline branch
OnLine == op = "decode" /\ nl_index(pre) # 0

\* the last decode call ran the branch without a newline, on a buffer that
\* is not empty
OnTail == op = "decode" /\ pre # <<>> /\ nl_index(pre) = 0

\* the last decode call produced the event that text carries
ProducedFrom(text) ==
    /\ out = "Produced"
    /\ events # <<>>
    /\ events[Len(events)].v = from_slice(Payload(text)).v
    /\ events[Len(events)].at = pre[1].off

C16_LineSuccess ==
    (OnLine /\ IsGood(FirstLine(pre))) =>
        /\ ProducedFrom(FirstLine(pre))
        /\ buf = Drop(pre, nl_index(pre))

\* decode has produced the event of a line that had bytes behind its newline
C16_Witness ==
    /\ OnLine
    /\ IsGood(FirstLine(pre))
    /\ out = "Produced"
    /\ buf # <<>>
    /\ IsSuffix(buf, pre)

\* C17: on a newline-terminated line that does not start with "data: ",
\* decode removes exactly the line and its newline, keeps the bytes after the
\* newline, and returns NeedMoreData.
C17_LineSkipped ==
    (OnLine /\ ~IsDataLine(FirstLine(pre))) =>
        /\ out = "NeedMoreData"
        /\ buf = Drop(pre, nl_index(pre))

\* decode has skipped a line that is not empty and had bytes behind its
\* newline
C17_Witness ==
    /\ OnLine
    /\ ~IsDataLine(FirstLine(pre))
    /\ nl_index(pre) > 1
    /\ out = "NeedMoreData"
    /\ buf # <<>>
    /\ buf = Drop(pre, nl_index(pre))

\* C18: on a buffer without a newline that starts with "data: " and whose
\* payload fails for a reason other than truncation, decode returns Error and
\* leaves the buffer as it was, so that the next call without new bytes
\* returns Error again.
C18_TailErrorRetained ==
    (OnTail /\ IsBad(Bytes(pre))) =>
        /\ out = "Error"
        /\ buf = pre
        /\ decode_checked(buf) = Error(pre)

\* decode has returned Error MaxDec times in a row on the same buffer without
\* a newline
C18_Witness ==
    /\ OnTail
    /\ IsBad(Bytes(pre))
    /\ out = "Error"
    /\ buf = pre
    /\ ndec = MaxDec

\* C19: on a buffer without a newline that starts with "data: " and whose
\* payload fails with an end-of-input error, decode returns NeedMoreData and
\* the buffer is unchanged.
C19_TailTruncation ==
    (OnTail /\ IsCut(Bytes(pre))) => (out = "NeedMoreData" /\ buf = pre)

\* decode has waited on a buffer that ends inside the payload of a frame
C19_Witness ==
    /\ OnTail
    /\ IsCut(Bytes(pre))
    /\ Len(pre) > PrefixLen
    /\ out = "NeedMoreData"
    /\ buf = pre

\* C20: on a buffer without a newline that starts with "data: " and whose
\* bytes after the prefix parse as one JSON value, decode returns Produced
\* with that event and the buffer is empty afterwards.
C20_TailSuccess ==
    (OnTail /\ IsGood(Bytes(pre))) => (ProducedFrom(Bytes(pre)) /\ buf = <<>>)

\* decode has produced an event from a buffer that held a whole payload and
\* no newline
C20_Witness ==
    /\ OnTail
    /\ IsGood(Bytes(pre))
    /\ out = "Produced"
    /\ buf = <<>>

\* the message an error of execute carries when the body gives none
DefaultText(r) ==
    CASE r.tag = "Authentication" -> "Unauthorized"
      [] r.tag = "Authorization" -> "Forbidden"
      [] r.tag = "ServerError" /\ 500 <= r.status /\ r.status <= 599 -> "Server error"
      [] OTHER -> "Request failed"

\* the message is the body, or the default text when the body is empty or
\* cannot be read
MessageFromBody(r, resp) ==
    r.message = IF resp.body.readable /\ resp.body.text # ""
                THEN resp.body.text
                ELSE DefaultText(r)

\* C13: execute returns Ok(response) exactly when the status is 2xx; 401 gives
\* Authentication, 403 gives Authorization, every other status outside 2xx
\* gives ServerError with that status; the message of the error is the
\* response body, or the default text when the body is empty or unreadable.
C13_StatusMapping ==
    (response # <<>> /\ result.tag # "none") =>
        /\ (result.tag = "Ok") <=> (response[1].status \in 200..299)
        /\ result.tag = "Ok" => result.response = response[1]
        /\ (result.tag = "Authentication") <=> (response[1].status = 401)
        /\ (result.tag = "Authorization") <=> (response[1].status = 403)
        /\ (result.tag = "ServerError") <=>
               (response[1].status \notin (200..299) \cup {401, 403})
        /\ result.tag = "ServerError" => result.status = response[1].status
        /\ result.tag # "Ok" => MessageFromBody(result, response[1])

\* a 404 with an unreadable body has been answered with ServerError and the
\* default text
C13_Witness ==
    /\ response # <<>>
    /\ result.tag # "none"
    /\ response[1].status = 404
    /\ ~response[1].body.readable
    /\ result = [tag |-> "ServerError", status |-> 404, message |-> "Request failed"]

\* t occurs in s as a subsequence: its elements, in order, with any others
\* between them
RECURSIVE IsSubseq(_, _)
IsSubseq(t, s) ==
    IF t = <<>> THEN TRUE
    ELSE IF s = <<>> THEN FALSE
    ELSE IF Head(t) = Head(s) THEN IsSubseq(Tail(t), Tail(s))
    ELSE IsSubseq(t, Tail(s))

\* C14 (as the claim states it): after any sequence of middleware(m) and
\* middlewares(list) calls, the chain of the built client contains every
\* middleware passed to any of the calls, in call order.
C14_MiddlewaresAdded ==
    built = "ok" => IsSubseq(passed, chain)

\* C12 (as the claim states it): a transport failure is reported to the
\* consumer once and ends the sequence: an error item for it is the last item
\* the returned stream yields.
C12_TransportErrorTerminal ==
    \A i \in 1..Len(emitted) :
        emitted[i].tag = "EventSourceError" => i = Len(emitted)

\* C21: on a non-empty buffer without a newline that does not start with
\* "data: ", a proper prefix of "data: " included, decode returns NeedMoreData
\* and the buffer is unchanged.
C21_TailNonData ==
    (OnTail /\ ~IsDataLine(Bytes(pre))) => (out = "NeedMoreData" /\ buf = pre)

\* decode has waited on a buffer that holds the first two bytes of "data: "
C21_Witness ==
    /\ OnTail
    /\ Bytes(pre) = Take(DataPrefix, 2)
    /\ out = "NeedMoreData"
    /\ buf = pre

\* the buffer b starts with a complete newline-terminated well-formed frame,
\* which a decode call on b produces
HoldsFrame(b) ==
    /\ nl_index(b) # 0
    /\ IsGood(FirstLine(b))
    /\ decode_checked(b).out = "Produced"

\* C23 (as the claim states it): when decode returns NeedMoreData, the buffer
\* it leaves does not start with a complete newline-terminated well-formed
\* frame that a further decode call, with no new bytes, would produce.
C23_NeedMoreDataIsFinal ==
    (op = "decode" /\ out = "NeedMoreData") => ~HoldsFrame(buf)

\* line k of the stream is a data line with an empty or cut-off payload and
\* line k + 1 is a well-formed frame
CutThenGood(k) ==
    /\ k + 1 <= NumLines
    /\ IsCut(LineText(Starts[k]))
    /\ IsGood(LineText(Starts[k + 1]))

\* some produced event is the event of the frame that starts at offset s
ProducedAt(s) == \E i \in 1..Len(events) : events[i] = EventAt(s)

\* C24 (as the claim states it): in a stream without malformed lines, where a
\* well-formed frame follows a newline-terminated data line with an empty or
\* cut-off payload, no decode call of the framed reader returns Error, and
\* once the whole stream
\* is buffered in one chunk and decode has been called as often as the stream
\* has lines, the frame's event has been produced.
C24_CutLineHarmless ==
    \A k \in 1..NumLines :
        (CutThenGood(k) /\ \A j \in 1..NumLines : ~IsBad(LineText(Starts[j]))) =>
            /\ disciplined => ~errored
            /\ (oneChunk /\ ndec >= NumLines) => ProducedAt(Starts[k + 1])

\* the number of bytes of b that decode hands to the parser, prefix included:
\* the first line, or all of b when it holds no newline
HeadLen(b) == IF nl_index(b) # 0 THEN nl_index(b) - 1 ELSE Len(b)

\* the first n bytes of b are consecutive bytes of the stream
Contiguous(b, n) == \A i \in 1..(n - 1) : b[i + 1].off = b[i].off + 1

\* the first n bytes of b run from the start of a line of the stream and
\* stay inside that line
WithinLine(b, n) ==
    \E k \in 1..NumLines :
        /\ b[1].off = Starts[k]
        /\ b[n].off < LineEnd(Starts[k])

\* C25 (as the claim states it): the bytes decode parses for a Produced event
\* are one contiguous range of the stream, starting with the "data: " at the
\* start of a line and ending at or before the end of that line.
C25_PayloadContiguous ==
    (op = "decode" /\ out = "Produced") =>
        /\ Contiguous(pre, HeadLen(pre))
        /\ WithinLine(pre, HeadLen(pre))

\* the item a Message event with this data is to be emitted as
ItemOf(data) ==
    IF from_slice(data).st = "ok"
    THEN [tag |-> "Ok", v |-> from_slice(data).v]
    ELSE [tag |-> "Json"]

\* the items of the Message events of seq, in order, up to the first
\* StreamEnded
RECURSIVE MessageItems(_)
MessageItems(seq) ==
    IF seq = <<>> THEN <<>>
    ELSE IF Head(seq).kind = "StreamEnded" THEN <<>>
    ELSE IF Head(seq).kind = "Message"
         THEN <<ItemOf(Head(seq).data)>> \o MessageItems(Tail(seq))
         ELSE MessageItems(Tail(seq))

IsMessageItem(item) == item.tag \in {"Ok", "Json"}

\* C27: the returned stream emits nothing for Open, one item per Message in
\* arrival order, Ok(value) when the data parses and Err(Json) otherwise, and
\* at the first StreamEnded it ends: nothing is emitted for it and nothing
\* that arrives after it is taken or emitted.
C27_EventSourceStream ==
    /\ SelectSeq(emitted, IsMessageItem) = MessageItems(arrived)
    /\ \A i \in 1..Len(arrived) :
           arrived[i].kind = "StreamEnded" => (ended /\ i = Len(arrived))
    /\ Len(emitted) <= Len(arrived)

\* a connection, a message that parses, one that does not, and the end of
\* the body have arrived; the stream has emitted the two items and ended
C27_Witness ==
    /\ arrived = <<Open, Message(<<"{", "}">>), Message(<<"x">>), StreamEnded>>
    /\ emitted = <<OkEvent(<<"{", "}">>), Json>>
    /\ ended

\* the answer is a successful response whose body is a BuildInfo with a
\* status that does not end the polling
NonTerminal(reply) ==
    /\ reply.kind = "response"
    /\ reply.http \in 200..299
    /\ reply.body \notin {"completed", "succeeded", "failed", "unparsable"}

\* what the claim has poll_build_status return on the answer that ends it
Verdict(reply) ==
    IF reply.kind = "response" /\ reply.http \in 200..299
    THEN CASE reply.body \in {"completed", "succeeded"} -> "Succeeded"
           [] reply.body = "failed" -> "Failed"
           [] OTHER -> "Err"
    ELSE "Err"

\* the answers before the last one did not end the polling
PolledOn == \A i \in 1..(Len(replies) - 1) : NonTerminal(replies[i])

\* C22 at every moment: at most 10 status requests are sent; the polling
\* goes on exactly while every answer is a non-terminal status; the first
\* other answer ends it with Succeeded for "completed" or "succeeded", Failed
\* for "failed", an error for a non-success HTTP status or an unparsable body;
\* the timeout error comes after 10 non-terminal answers and only then.
PollSafe ==
    /\ Len(replies) <= 10
    /\ PolledOn
    /\ polled.tag = "none" => \A i \in 1..Len(replies) : NonTerminal(replies[i])
    /\ (polled.tag = "Ok" \/ (polled.tag = "Err" /\ polled.why # "timed out")) =>
           /\ replies # <<>>
           /\ ~NonTerminal(replies[Len(replies)])
           /\ Verdict(replies[Len(replies)]) =
                  (IF polled.tag = "Ok" THEN polled.status ELSE "Err")
    /\ (polled.tag = "Err" /\ polled.why = "timed out") =>
           /\ Len(replies) = 10
           /\ \A i \in 1..10 : NonTerminal(replies[i])

\* C22: poll_build_status always terminates, after at most 10 status
\* requests, with the result the answers determine (PollSafe).
C22_PollTerminates ==
    [](PollSafe) /\ <>(polled.tag # "none")

\* the polling has given up after 10 non-terminal answers
C22_Witness ==
    /\ polled.tag = "Err"
    /\ polled.why = "timed out"
    /\ Len(replies) = 10

\* C28 (as the claim states it): the number of attempts the timeout error
\* names is the number of status requests sent.
C28_AttemptsNamed ==
    (polled.tag = "Err" /\ polled.why = "timed out") =>
        polled.attempts = Len(replies)

\* the updates of the pages ps, concatenated in order
RECURSIVE UpdatesOf(_)
UpdatesOf(ps) ==
    IF ps = <<>> THEN <<>> ELSE Head(ps).updates \o UpdatesOf(Tail(ps))

\* C26: in FetchAll mode the first request carries no token and every later
\* one the next_token of the page before it; no request follows a page
\* without next_token; the call returns, at that page, the updates of all
\* pages in fetch order with next_token None; when a request or a parse
\* fails the call returns the error alone.
C26_FetchAll ==
    /\ requests # <<>> => requests[1] = <<>>
    /\ \A i \in 2..Len(requests) :
           requests[i] # <<>> /\ requests[i] = pages[i - 1].next_token
    /\ \A i \in 1..(Len(pages) - 1) : pages[i].next_token # <<>>
    /\ Len(pages) <= Len(requests) /\ Len(requests) <= Len(pages) + 1
    /\ (fetched.tag = "Ok") <=>
           (pages # <<>> /\ pages[Len(pages)].next_token = <<>>)
    /\ fetched.tag = "Ok" =>
           fetched = [tag |-> "Ok", updates |-> UpdatesOf(pages), next_token |-> <<>>]
    /\ (fetched.tag = "Err") <=> (Len(requests) = Len(pages) + 1)
    /\ fetched.tag = "Err" => fetched = [tag |-> "Err"]

\* three pages were fetched, the first two with updates and a token, and the
\* call has returned their updates in order
C26_Witness ==
    /\ Len(pages) = 3
    /\ requests = << <<>>, <<"t1">>, <<"t2">> >>
    /\ fetched = [tag |-> "Ok", updates |-> <<"a", "b">>, next_token |-> <<>>]

====
